---- MODULE Spec2Model ----
(***************************************************************************)
(* Parallel Matrix Engine (src/lib.rs): the serial oracle gemm_naive, the  *)
(* blocked fork-join gemm_parallel and its micro-kernel                    *)
(* multiply_add_block_slice, as a state machine.                           *)
(*                                                                         *)
(* Matrices are records [rows, cols, data].  The row-major backing store   *)
(* is addressed by its flat index idx in 0 .. rows*cols-1 and kept as one  *)
(* vector per row: idx lives at data[idx \div cols][idx % cols].  f32      *)
(* values are modelled by a binary floating format with MantBits           *)
(* significant bits and round-to-nearest-even, so that addition is not     *)
(* associative and a change of summation order is observable.              *)
(***************************************************************************)
EXTENDS Integers, Sequences, FiniteSets, TLC

\* ---------------------------------------------------------------- bounds
MaxVolume == 9000      \* inputs keep (m+1)*(k+1)*(n+1) at or below this
MaxWideInner == 1      \* inputs of more than two row-blocks keep k*n at or below this
MaxSeed == 0           \* seeds of Matrix::random range over 0 .. MaxSeed
MaxWorkers == 3        \* sizes of the worker pool range over 1 .. MaxWorkers
MantBits == 3          \* significant bits of the modelled float format

\* ------------------------------------------------------ program constants
MinBlock == 16         \* .max(16)
MaxBlock == 64         \* 64usize.min(..)

\* Dimensions around the tile-size boundaries of gemm_parallel.
DimChoices ==
    {0, 1, MinBlock - 1, MinBlock, MinBlock + 1,
     MaxBlock, MaxBlock + 1, 2 * MaxBlock + 1}

VARIABLES
    a, b,          \* the inputs (read-only)
    entry,         \* which entry point was called: "none", "naive", "parallel"
    pc,            \* "start", "allocated", "forked", "returned", "panicked"
    c,             \* the output matrix under construction, NoMatrix before allocation
    blocks,        \* [m, n, k]: block_m, block_n, block_k
    row_blocks,    \* sequence of [ri, r_end, start, end]
    task,          \* per row-block: [st, cj, kk]
    nworkers,      \* threads of the pool
    result,        \* the matrix returned to the caller, NoMatrix if none
    acc_log,       \* history: per cell of C (stored like C), the accumulations made
                   \*          into it, in order: <<row-block, depth index>>
    a_reads,       \* history: per cell of A (stored like A), the number of reads
    b_reads,       \* history: per cell of B (stored like B), the number of reads
    last,          \* history: the arguments of the last micro-kernel invocation
    runs           \* history: per row-block, number of tasks started for it

vars == <<a, b, entry, pc, c, blocks, row_blocks, task, nworkers, result,
          acc_log, a_reads, b_reads, last, runs>>

NoMatrix == [rows |-> 0, cols |-> 0, data |-> <<>>, none |-> TRUE]
NoCall == [block |-> 0]

Min(x, y) == IF x <= y THEN x ELSE y
Max(x, y) == IF x >= y THEN x ELSE y

\* ------------------------------------------------------------- arithmetic
RECURSIVE Pow2(_)
Pow2(e) == IF e = 0 THEN 1 ELSE 2 * Pow2(e - 1)

\* values below MantLimit are exact
MantLimit == Pow2(MantBits)

RECURSIVE Ulp(_, _)
\* the spacing of the format at x: the least power of two u >= `u` with x \div u < MantLimit
Ulp(x, u) == IF x \div u < MantLimit THEN u ELSE Ulp(x, 2 * u)

\* x = q * u + r rounded to a multiple of u: to nearest, ties to even
RoundTo(q, r, u) ==
    IF 2 * r > u \/ (2 * r = u /\ q % 2 = 1) THEN (q + 1) * u ELSE q * u

RoundAt(x, u) == RoundTo(x \div u, x % u, u)

\* Round a non-negative real (here an integer) to the float format.
Round(x) == IF x < MantLimit THEN x ELSE RoundAt(x, Ulp(x, 2))

FAdd(x, y) == Round(x + y)
FMul(x, y) == Round(x * y)

\* ----------------------------------------------------------------- Matrix
\* data[idx] of a store whose rows hold `cols` values
Load(data, cols, idx) == data[idx \div cols][idx % cols]

\* Matrix::new
MatrixNew(rows, cols) ==
    [rows |-> rows, cols |-> cols,
     data |-> [r \in 0 .. rows - 1 |-> [col \in 0 .. cols - 1 |-> 0]]]

\* Matrix::random: rows*cols values pushed in storage order from a seeded
\* deterministic generator.
RandomValue(seed, idx) == ((idx + 1) * (seed + 2) + (idx \div 3)) % 4

MatrixRandom(rows, cols, seed) ==
    [rows |-> rows, cols |-> cols,
     data |-> [r \in 0 .. rows - 1 |->
                 [col \in 0 .. cols - 1 |-> RandomValue(seed, r * cols + col)]]]

\* Vec::len of a matrix's backing store (rows * cols by construction)
DataLen(mat) == mat.rows * mat.cols

\* Matrix::get: self.data[r * self.cols + c]
Get(mat, r, col) == Load(mat.data, mat.cols, r * mat.cols + col)

\* ------------------------------------------------------------- gemm_naive
\* The loops below run their index over [lo, hi) in increasing order; a range
\* of more than one index is run as its lower half followed by its upper half,
\* which keeps the evaluation shallow and leaves the order of the iterations
\* untouched.  ns = [sum, oob] is the accumulator and whether an access was
\* out of bounds (Vec indexing panics).
RECURSIVE NaiveSumLoop(_, _, _, _, _, _, _)
\* for kk in 0..k { sum += a.get(i, kk) * b.get(kk, j); }
NaiveSumLoop(ns, ma, mb, i, j, lo, hi) ==
    IF ns.oob \/ lo >= hi THEN ns
    ELSE IF hi = lo + 1
    THEN IF i * ma.cols + lo >= DataLen(ma) \/ lo * mb.cols + j >= DataLen(mb)
         THEN [ns EXCEPT !.oob = TRUE]
         ELSE [ns EXCEPT !.sum = FAdd(@, FMul(Get(ma, i, lo), Get(mb, lo, j)))]
    ELSE NaiveSumLoop(NaiveSumLoop(ns, ma, mb, i, j, lo, (lo + hi) \div 2),
                      ma, mb, i, j, (lo + hi) \div 2, hi)

\* let mut sum = 0.0_f32; for kk in 0..k { .. }; c.set(i, j, sum)
NaiveSum(ma, mb, i, j, k) ==
    NaiveSumLoop([sum |-> 0, oob |-> FALSE], ma, mb, i, j, 0, k).sum

GemmNaive(ma, mb) ==
    LET m == ma.rows
        n == mb.cols
        k == ma.cols
    IN  [rows |-> m, cols |-> n,
         data |-> [i \in 0 .. m - 1 |-> [j \in 0 .. n - 1 |-> NaiveSum(ma, mb, i, j, k)]]]

\* ---------------------------------------------------------- gemm_parallel
\* the lower clamp forgotten: 64usize.min(d)
BlockSizeNoFloor(d) == Min(MaxBlock, d)

\* block sizes between 1 and 8: a matrix of 9 to 15 rows is cut in two
BlockSizeSmall(d) == Max(Min(MinBlock \div 2, d), 1)

\* 64usize.min(d).max(16)
BlockSize(d) == Max(Min(MaxBlock, d), MinBlock)

\* one row too many: (ri + block_m + 1).min(m)
RowEndOverlap(ri, block_m, m) == Min(ri + block_m + 1, m)

\* (ri + block_m).min(m)
RowEnd(ri, block_m, m) == Min(ri + block_m, m)

\* the stride forgotten: let start = ri
SliceStartNoStride(ri, n) == ri

\* let start = ri * n
SliceStart(ri, n) == ri * n

RECURSIVE RowBlocksFrom(_, _, _, _)
\* (0..m).step_by(block_m).map(|ri| (ri, r_end, &mut ptr[start..end])).collect()
RowBlocksFrom(ri, m, n, block_m) ==
    IF ri >= m THEN <<>>
    ELSE <<[ri |-> ri, r_end |-> RowEnd(ri, block_m, m),
            start |-> SliceStart(ri, n), end |-> RowEnd(ri, block_m, m) * n]>>
         \o RowBlocksFrom(ri + block_m, m, n, block_m)

\* step_by(0) panics; ptr[start..end] panics unless start <= end <= len
PartitionPanics(rbs, block_m, len) ==
    \/ block_m = 0
    \/ \E x \in 1 .. Len(rbs) : rbs[x].start > rbs[x].end \/ rbs[x].end > len

\* ----------------------------------------------- multiply_add_block_slice
\* The kernel's loops thread ks = [data, oob, ra, rb, log]: the storage of C,
\* whether an index was out of bounds (a panic), the read counts of A and B
\* and the log of accumulations.  x holds the invocation's locals.
\* `=` instead of `+=`
AccumulateOverwrite(ks, mb, x, li, bi, gi) ==
    IF li >= x.end - x.start \/ bi >= DataLen(mb)
    THEN [ks EXCEPT !.oob = TRUE]
    ELSE [ks EXCEPT !.data[gi \div x.n][gi % x.n] =
                        FMul(x.a_ik, Load(mb.data, mb.cols, bi)),
                    !.rb[bi \div mb.cols][bi % mb.cols] = @ + 1,
                    !.log[gi \div x.n][gi % x.n] = Append(@, <<x.block, x.kk>>)]

\* c_slice[li] += a_ik * b.data[bi], where li indexes the slice and gi = start + li
\* is the same place in the storage of C
Accumulate(ks, mb, x, li, bi, gi) ==
    IF li >= x.end - x.start \/ bi >= DataLen(mb)
    THEN [ks EXCEPT !.oob = TRUE]
    ELSE [ks EXCEPT !.data[gi \div x.n][gi % x.n] =
                        FAdd(@, FMul(x.a_ik, Load(mb.data, mb.cols, bi))),
                    !.rb[bi \div mb.cols][bi % mb.cols] = @ + 1,
                    !.log[gi \div x.n][gi % x.n] = Append(@, <<x.block, x.kk>>)]

\* c_slice[c_row_offset + j] += a_ik * b.data[b_row_offset + j];
BodyJ(ks, mb, x, j) ==
    Accumulate(ks, mb, x, x.c_row_offset + j, x.b_row_offset + j,
               x.start + x.c_row_offset + j)

RECURSIVE LoopJ(_, _, _, _, _)
\* for j in c0..c1 { .. }
LoopJ(ks, mb, x, lo, hi) ==
    IF ks.oob \/ lo >= hi THEN ks
    ELSE IF hi = lo + 1 THEN BodyJ(ks, mb, x, lo)
    ELSE LoopJ(LoopJ(ks, mb, x, lo, (lo + hi) \div 2), mb, x, (lo + hi) \div 2, hi)

\* let a_ik = a.data[i * a_cols + kk]; let b_row_offset = kk * b_cols; for j in c0..c1 { .. }
BodyK(ks, ma, mb, x, i, kk, c0, c1) ==
    LET ai == i * ma.cols + kk
    IN  IF ai >= DataLen(ma)
        THEN [ks EXCEPT !.oob = TRUE]
        ELSE LoopJ([ks EXCEPT !.ra[ai \div ma.cols][ai % ma.cols] = @ + 1], mb,
                   [x EXCEPT !.a_ik = Load(ma.data, ma.cols, ai),
                             !.b_row_offset = kk * mb.cols,
                             !.kk = kk],
                   c0, c1)

RECURSIVE LoopKDescending(_, _, _, _, _, _, _, _, _)
\* the depth loop run downwards: for kk in (k0..k1).rev() { .. }
LoopKDescending(ks, ma, mb, x, i, lo, hi, c0, c1) ==
    IF ks.oob \/ lo >= hi THEN ks
    ELSE IF hi = lo + 1 THEN BodyK(ks, ma, mb, x, i, lo, c0, c1)
    ELSE LoopKDescending(LoopKDescending(ks, ma, mb, x, i, (lo + hi) \div 2, hi, c0, c1),
                         ma, mb, x, i, lo, (lo + hi) \div 2, c0, c1)

RECURSIVE LoopK(_, _, _, _, _, _, _, _, _)
\* for kk in k0..k1 { .. }
LoopK(ks, ma, mb, x, i, lo, hi, c0, c1) ==
    IF ks.oob \/ lo >= hi THEN ks
    ELSE IF hi = lo + 1 THEN BodyK(ks, ma, mb, x, i, lo, c0, c1)
    ELSE LoopK(LoopK(ks, ma, mb, x, i, lo, (lo + hi) \div 2, c0, c1),
               ma, mb, x, i, (lo + hi) \div 2, hi, c0, c1)

\* the row offset taken in C instead of in the slice: let c_row_offset = i * n
BodyIGlobalRow(ks, ma, mb, x, i, r0, c0, c1, k0, k1) ==
    LoopK(ks, ma, mb, [x EXCEPT !.c_row_offset = i * x.n], i, k0, k1, c0, c1)

\* let local_i = i - r0; let c_row_offset = local_i * n; for kk in k0..k1 { .. }
BodyI(ks, ma, mb, x, i, r0, c0, c1, k0, k1) ==
    LoopK(ks, ma, mb, [x EXCEPT !.c_row_offset = (i - r0) * x.n], i, k0, k1, c0, c1)

RECURSIVE LoopI(_, _, _, _, _, _, _, _, _, _, _)
\* for i in r0..r1 { .. }
LoopI(ks, ma, mb, x, lo, hi, r0, c0, c1, k0, k1) ==
    IF ks.oob \/ lo >= hi THEN ks
    ELSE IF hi = lo + 1 THEN BodyI(ks, ma, mb, x, lo, r0, c0, c1, k0, k1)
    ELSE LoopI(LoopI(ks, ma, mb, x, lo, (lo + hi) \div 2, r0, c0, c1, k0, k1),
               ma, mb, x, (lo + hi) \div 2, hi, r0, c0, c1, k0, k1)

\* multiply_add_block_slice(a, b, c_slice, r0, r1, c0, c1, k0, k1, n), with
\* c_slice the sub-slice [sl.start, sl.end) of the storage `h.data` of C, called
\* by the task of row-block bk; h = [data, ra, rb, log] is the storage and the
\* history before the call.
MultiplyAddBlockSlice(ma, mb, h, bk, sl, r0, r1, c0, c1, k0, k1, n) ==
    LoopI([data |-> h.data, oob |-> FALSE, ra |-> h.ra, rb |-> h.rb, log |-> h.log],
          ma, mb,
          [start |-> sl.start, end |-> sl.end, n |-> n, block |-> bk,
           c_row_offset |-> 0, a_ik |-> 0, b_row_offset |-> 0, kk |-> 0],
          r0, r1, r0, c0, c1, k0, k1)

\* ------------------------------------------------------------------- Init
Volume(m, k, n) == (m + 1) * (k + 1) * (n + 1)

\* the shapes the inputs are drawn from
Admitted(m, k, n) ==
    /\ Volume(m, k, n) <= MaxVolume
    /\ m > 2 * MaxBlock => k * n <= MaxWideInner

Init ==
    /\ \E m \in DimChoices, k \in DimChoices, n \in DimChoices, seed \in 0 .. MaxSeed :
         /\ Admitted(m, k, n)
         /\ \E kb \in {k, k + 1} :
              /\ a = MatrixRandom(m, k, seed)
              /\ b = MatrixRandom(kb, n, seed + 1)
    /\ entry = "none"
    /\ pc = "start"
    /\ c = NoMatrix
    /\ blocks = [m |-> 0, n |-> 0, k |-> 0]
    /\ row_blocks = <<>>
    /\ task = <<>>
    /\ nworkers = 0
    /\ result = NoMatrix
    /\ acc_log = <<>>
    /\ a_reads = <<>>
    /\ b_reads = <<>>
    /\ last = NoCall
    /\ runs = <<>>

\* ---------------------------------------------------------------- actions
\* gemm_naive, lines 78-82: the shape assertion, then the allocation of C.
NaiveEnter ==
    /\ pc = "start"
    /\ entry' = "naive"
    /\ IF a.cols # b.rows
       THEN /\ pc' = "panicked"
            /\ c' = c
       ELSE /\ pc' = "allocated"
            /\ c' = MatrixNew(a.rows, b.cols)
    /\ UNCHANGED <<a, b, blocks, row_blocks, task, nworkers, result,
                   acc_log, a_reads, b_reads, last, runs>>

\* gemm_naive, lines 83-92: the triple loop and the return of C.
NaiveRun ==
    /\ pc = "allocated"
    /\ c' = [c EXCEPT !.data = GemmNaive(a, b).data]
    /\ result' = c'
    /\ pc' = "returned"
    /\ UNCHANGED <<a, b, entry, blocks, row_blocks, task, nworkers,
                   acc_log, a_reads, b_reads, last, runs>>

\* the shape assertion placed after the allocation of C
ParallelEnterLateCheck ==
    /\ pc = "start"
    /\ entry' = "parallel"
    /\ c' = MatrixNew(a.rows, b.cols)
    /\ pc' = IF a.cols # b.rows THEN "panicked" ELSE "returned"
    /\ result' = IF a.cols # b.rows THEN result ELSE c'
    /\ UNCHANGED <<a, b, blocks, row_blocks, task, nworkers,
                   acc_log, a_reads, b_reads, last, runs>>

\* gemm_parallel, lines 101-124: the shape assertion, the tile sizes, the
\* allocation of C and its split into row-blocks; the pool has nworkers threads.
ParallelEnter ==
    /\ pc = "start"
    /\ entry' = "parallel"
    /\ IF a.cols # b.rows
       THEN /\ pc' = "panicked"
            /\ UNCHANGED <<c, blocks, row_blocks, task, nworkers,
                           acc_log, a_reads, b_reads, runs>>
       ELSE LET m == a.rows
                n == b.cols
                k == a.cols
                block_m == BlockSize(m)
                rbs == IF block_m = 0 THEN <<>> ELSE RowBlocksFrom(0, m, n, block_m)
            IN  /\ blocks' = [m |-> block_m, n |-> BlockSize(n), k |-> BlockSize(k)]
                /\ c' = MatrixNew(m, n)
                /\ acc_log' = [r \in 0 .. m - 1 |-> [col \in 0 .. n - 1 |-> <<>>]]
                /\ a_reads' = MatrixNew(m, k).data
                /\ b_reads' = MatrixNew(k, n).data
                /\ IF PartitionPanics(rbs, block_m, m * n)
                   THEN /\ pc' = "panicked"
                        /\ UNCHANGED <<row_blocks, task, nworkers, runs>>
                   ELSE /\ pc' = "forked"
                        /\ row_blocks' = rbs
                        /\ task' = [x \in 1 .. Len(rbs) |-> [st |-> "pending", cj |-> 0, kk |-> 0]]
                        /\ runs' = [x \in 1 .. Len(rbs) |-> 0]
                        /\ nworkers' \in 1 .. Max(1, Min(MaxWorkers, Len(rbs)))
    /\ UNCHANGED <<a, b, result, last>>

Running == {x \in 1 .. Len(task) : task[x].st = "running"}

\* a thread of the pool is free and row-block bk is not yet taken
CanStart(bk) ==
    /\ pc = "forked"
    /\ task[bk].st = "pending"
    /\ Cardinality(Running) < nworkers

\* into_par_iter().for_each: a free worker takes a row-block not yet taken.
TaskStart(bk) ==
    /\ CanStart(bk)
    /\ task' = [task EXCEPT ![bk] = [st |-> "running", cj |-> 0, kk |-> 0]]
    /\ runs' = [runs EXCEPT ![bk] = @ + 1]
    /\ UNCHANGED <<a, b, entry, pc, c, blocks, row_blocks, nworkers, result,
                   acc_log, a_reads, b_reads, last>>

\* the loops of lines 127 and 129 have a tile left at (cj, kk)
HasTile(t) == t.cj < b.cols /\ t.kk < a.cols

\* the next (cj, kk) of the loops of lines 127 and 129
NextTile(t) ==
    IF t.kk + blocks.k < a.cols
    THEN [t EXCEPT !.kk = t.kk + blocks.k]
    ELSE [t EXCEPT !.cj = t.cj + blocks.n, !.kk = 0]

\* The effect of one micro-kernel call by the task of row-block bk on tile
\* (t.cj .. c_j_end, t.kk .. k_end), ks being the kernel's final loop state.
\* An out-of-bounds index panics the task, and with it gemm_parallel.
ApplyKernel(bk, t, sl, c_j_end, k_end, ks) ==
    /\ c' = [c EXCEPT !.data = ks.data]
    /\ acc_log' = ks.log
    /\ a_reads' = ks.ra
    /\ b_reads' = ks.rb
    /\ last' = [block |-> bk, seq |-> (IF last = NoCall THEN 1 ELSE last.seq + 1),
                r0 |-> sl.ri, r1 |-> sl.r_end, c0 |-> t.cj, c1 |-> c_j_end,
                k0 |-> t.kk, k1 |-> k_end, oob |-> ks.oob]
    /\ IF ks.oob
       THEN /\ pc' = "panicked"
            /\ task' = task
       ELSE /\ pc' = pc
            /\ task' = [task EXCEPT ![bk] = NextTile(t)]

\* One iteration of the closure's tile loops (lines 127-143): one call of the
\* micro-kernel on the task's exclusive slice.
TaskStepOn(bk, t, sl, c_j_end, k_end) ==
    ApplyKernel(bk, t, sl, c_j_end, k_end,
                MultiplyAddBlockSlice(a, b,
                    [data |-> c.data, ra |-> a_reads, rb |-> b_reads, log |-> acc_log],
                    bk, sl, sl.ri, sl.r_end, t.cj, c_j_end, t.kk, k_end, b.cols))

\* the task of row-block bk is inside its tile loops
CanStep(bk) ==
    /\ pc = "forked"
    /\ task[bk].st = "running"
    /\ HasTile(task[bk])

TaskStep(bk) ==
    /\ CanStep(bk)
    /\ TaskStepOn(bk, task[bk], row_blocks[bk],
                  Min(task[bk].cj + blocks.n, b.cols),
                  Min(task[bk].kk + blocks.k, a.cols))
    /\ UNCHANGED <<a, b, entry, blocks, row_blocks, nworkers, result, runs>>

\* the task of row-block bk has exhausted its tile loops
CanFinish(bk) ==
    /\ pc = "forked"
    /\ task[bk].st = "running"
    /\ ~HasTile(task[bk])

\* The closure returns: the tile loops are exhausted.
TaskFinish(bk) ==
    /\ CanFinish(bk)
    /\ task' = [task EXCEPT ![bk].st = "done"]
    /\ UNCHANGED <<a, b, entry, pc, c, blocks, row_blocks, nworkers, result,
                   acc_log, a_reads, b_reads, last, runs>>

\* a join that waits for the first task only
CanJoinFirst ==
    /\ pc = "forked"
    /\ \A x \in 1 .. Len(task) : x = 1 => task[x].st = "done"

\* for_each has seen every task complete
CanJoin ==
    /\ pc = "forked"
    /\ \A x \in 1 .. Len(task) : task[x].st = "done"

\* for_each returns once every task has completed; gemm_parallel returns c.
Join ==
    /\ CanJoin
    /\ result' = c
    /\ pc' = "returned"
    /\ UNCHANGED <<a, b, entry, c, blocks, row_blocks, task, nworkers,
                   acc_log, a_reads, b_reads, last, runs>>

Next ==
    \/ NaiveEnter
    \/ NaiveRun
    \/ ParallelEnter
    \/ \E bk \in 1 .. Len(task) : TaskStart(bk)
    \/ \E bk \in 1 .. Len(task) : TaskStep(bk)
    \/ \E bk \in 1 .. Len(task) : TaskFinish(bk)
    \/ Join

Spec == Init /\ [][Next]_vars

\* ================================================================= claims
ShapesMatch == a.cols = b.rows
InParallel == entry = "parallel" /\ pc \in {"forked", "returned"}
ParallelReturned == entry = "parallel" /\ pc = "returned"
FlatC == 0 .. a.rows * b.cols - 1

\* the accumulations logged for the cell of C at flat index idx
CellLog(idx) == Load(acc_log, b.cols, idx)

\* ----------------------------------------------------------------------
\* C1: for matching shapes gemm_parallel returns (it does not panic) an
\* a.rows x b.cols matrix and every cell of it equals the cell gemm_naive
\* computes: the rounded sum over t = 0 .. k-1 of A[i][t] * B[t][j].
C1_ParallelEqualsNaive ==
    /\ (entry = "parallel" /\ ShapesMatch) => pc # "panicked"
    /\ ParallelReturned =>
         /\ result.rows = a.rows
         /\ result.cols = b.cols
         /\ DOMAIN result.data = 0 .. a.rows - 1
         /\ \A i \in 0 .. a.rows - 1 :
              /\ DOMAIN result.data[i] = 0 .. b.cols - 1
              /\ \A j \in 0 .. b.cols - 1 :
                   Get(result, i, j) = NaiveSum(a, b, i, j, a.cols)

\* a product with a tiled depth whose first cell needed rounding was returned
C1_Witness ==
    /\ ParallelReturned
    /\ a.cols > MaxBlock /\ a.rows > 0 /\ b.cols > 0
    /\ Get(result, 0, 0) >= MantLimit

\* ----------------------------------------------------------------------
\* C2: with a.cols # b.rows both entry points fail at once: C is never
\* allocated, no row-block is built, no task is started, no kernel call is
\* made and no matrix is returned.
C2_MismatchFailsFirst ==
    ~ShapesMatch =>
        /\ pc \in {"start", "panicked"}
        /\ entry # "none" => pc = "panicked"
        /\ c = NoMatrix
        /\ row_blocks = <<>>
        /\ task = <<>>
        /\ runs = <<>>
        /\ last = NoCall
        /\ result = NoMatrix

\* gemm_parallel was called on non-empty matrices of mismatched shapes
C2_Witness ==
    /\ ~ShapesMatch
    /\ entry = "parallel" /\ pc = "panicked"
    /\ a.rows > MaxBlock /\ b.cols > 0

\* ----------------------------------------------------------------------
\* C3: the matrix gemm_parallel returns does not depend on the schedule: under
\* every interleaving and pool size it is the matrix obtained by running the
\* row-blocks one after the other, in order, on a single thread.
RECURSIVE SerialTiles(_, _, _, _)
SerialTiles(h, bk, sl, t) ==
    IF h.oob \/ ~HasTile(t) THEN h
    ELSE SerialTiles(MultiplyAddBlockSlice(a, b, h, bk, sl, sl.ri, sl.r_end,
                                           t.cj, Min(t.cj + blocks.n, b.cols),
                                           t.kk, Min(t.kk + blocks.k, a.cols), b.cols),
                     bk, sl, NextTile(t))

RECURSIVE SerialBlocks(_, _)
SerialBlocks(h, bk) ==
    IF h.oob \/ bk > Len(row_blocks) THEN h
    ELSE SerialBlocks(SerialTiles(h, bk, row_blocks[bk],
                                  [st |-> "running", cj |-> 0, kk |-> 0]),
                      bk + 1)

SerialRun ==
    SerialBlocks([data |-> MatrixNew(a.rows, b.cols).data, oob |-> FALSE,
                  ra |-> MatrixNew(a.rows, a.cols).data,
                  rb |-> MatrixNew(b.rows, b.cols).data,
                  log |-> [r \in 0 .. a.rows - 1 |-> [col \in 0 .. b.cols - 1 |-> <<>>]]],
                 1)

SameAsSerial(sr) ==
    IF pc = "panicked" THEN sr.oob ELSE ~sr.oob /\ result.data = sr.data

C3_ScheduleIndependent ==
    (entry = "parallel" /\ ShapesMatch /\ pc \in {"panicked", "returned"})
        => SameAsSerial(SerialRun)

\* two row-blocks finished in the opposite order of their indices, on two threads
C3_Witness ==
    /\ ParallelReturned
    /\ nworkers >= 2
    /\ Len(row_blocks) >= 2
    /\ last.block = 1
    /\ a.cols > 1 /\ b.cols > 0

\* ----------------------------------------------------------------------
\* C4: every cell of C is accumulated into by at most one task, the task of
\* the row-block whose rows [r0, r1) hold the cell, i.e. whose storage range
\* [r0*n, r1*n) holds its index; the ranges of two row-blocks do not overlap.
OwnedBy(idx, x) ==
    /\ x \in 1 .. Len(row_blocks)
    /\ row_blocks[x].ri * b.cols <= idx
    /\ idx < row_blocks[x].r_end * b.cols

SingleOwner(idx, lg) ==
    \A p \in 1 .. Len(lg) : lg[p][1] = lg[1][1] /\ OwnedBy(idx, lg[p][1])

C4_ExclusiveWriters ==
    InParallel =>
        /\ \A x, y \in 1 .. Len(row_blocks) :
              x < y => \/ row_blocks[x].r_end * b.cols <= row_blocks[y].ri * b.cols
                       \/ row_blocks[y].r_end * b.cols <= row_blocks[x].ri * b.cols
        /\ \A idx \in FlatC : SingleOwner(idx, CellLog(idx))

\* two tasks are running at once and both have written
C4_Witness ==
    /\ InParallel /\ pc = "forked"
    /\ Cardinality(Running) >= 2
    /\ \A x \in Running :
          \E idx \in FlatC : Len(CellLog(idx)) > 0 /\ CellLog(idx)[1][1] = x

\* ----------------------------------------------------------------------
\* C5: the row-blocks are consecutive ranges [ri, r_end) of width block_m,
\* the last one possibly narrower, pairwise disjoint with union [0, m); their
\* storage ranges [start, end) = [ri*n, r_end*n) are pairwise disjoint and
\* cover exactly [0, m*n).
C5_DisjointPartition ==
    InParallel =>
        LET L == Len(row_blocks)
            m == a.rows
            n == b.cols
        IN  /\ \A x \in 1 .. L :
                 /\ row_blocks[x].ri < row_blocks[x].r_end
                 /\ row_blocks[x].r_end - row_blocks[x].ri <= blocks.m
                 /\ x < L => row_blocks[x].r_end - row_blocks[x].ri = blocks.m
                 /\ x < L => row_blocks[x + 1].ri = row_blocks[x].r_end
                 /\ row_blocks[x].start = row_blocks[x].ri * n
                 /\ row_blocks[x].end = row_blocks[x].r_end * n
            /\ \A x, y \in 1 .. L :
                 x # y =>
                   /\ (row_blocks[x].ri .. row_blocks[x].r_end - 1)
                        \cap (row_blocks[y].ri .. row_blocks[y].r_end - 1) = {}
                   /\ (row_blocks[x].start .. row_blocks[x].end - 1)
                        \cap (row_blocks[y].start .. row_blocks[y].end - 1) = {}
            /\ UNION {row_blocks[x].ri .. row_blocks[x].r_end - 1 : x \in 1 .. L}
                 = 0 .. m - 1
            /\ UNION {row_blocks[x].start .. row_blocks[x].end - 1 : x \in 1 .. L}
                 = 0 .. m * n - 1

\* three row-blocks, the last one narrower, over a matrix with several columns
C5_Witness ==
    /\ InParallel
    /\ Len(row_blocks) = 3
    /\ row_blocks[3].r_end - row_blocks[3].ri < blocks.m
    /\ b.cols > 1

\* ----------------------------------------------------------------------
\* C6 as stated: the tile size along a dimension d is min(64, d) when d >= 16
\* and d itself when d < 16.
C6_TileSizeAsStated ==
    LET stated(d) == IF d >= MinBlock THEN Min(MaxBlock, d) ELSE d
    IN  InParallel =>
          /\ blocks.m = stated(a.rows)
          /\ blocks.n = stated(b.cols)
          /\ blocks.k = stated(a.cols)

\* C6 amended: the tile size along a dimension d is min(64, d) when d >= 16
\* and 16 when d < 16 (it is never below 16, also when the dimension is; the
\* one tile of such a dimension is then cut to [0, d)); the rule is applied
\* independently to block_m, block_n and block_k.
C6_TileSizeClamped ==
    LET clamped(d) ==
            IF d < MinBlock THEN MinBlock ELSE IF d > MaxBlock THEN MaxBlock ELSE d
    IN  InParallel =>
          /\ blocks.m = clamped(a.rows)
          /\ blocks.n = clamped(b.cols)
          /\ blocks.k = clamped(a.cols)
          /\ \A x \in 1 .. Len(row_blocks) :
                row_blocks[x].r_end - row_blocks[x].ri = Min(blocks.m, a.rows - row_blocks[x].ri)
          /\ last # NoCall =>
                /\ last.c1 - last.c0 = Min(blocks.n, b.cols - last.c0)
                /\ last.k1 - last.k0 = Min(blocks.k, a.cols - last.k0)

\* a kernel call was made with one dimension below 16, one between 16 and 64
\* and one above 64
C6_Witness ==
    /\ InParallel
    /\ last # NoCall
    /\ a.rows > MaxBlock
    /\ a.cols > 0 /\ a.cols < MinBlock
    /\ b.cols > MinBlock /\ b.cols < MaxBlock

\* ----------------------------------------------------------------------
\* C7 as stated: one task per row-block, and whenever m < 16 exactly one
\* row-block, hence one task.
C7_OneChunkAsStated ==
    (InParallel /\ a.rows < MinBlock) =>
        /\ Len(row_blocks) = 1
        /\ pc = "returned" => runs = <<1>>

\* C7 amended: gemm_parallel starts exactly one task per row-block; whenever
\* 0 < m < 16 there is exactly one row-block, hence exactly one task, and that
\* task computes the whole correct result; when m = 0 there is no row-block
\* and no task, and the empty result is returned.
C7_OneTaskPerChunk ==
    InParallel =>
        /\ Len(task) = Len(row_blocks) /\ Len(runs) = Len(row_blocks)
        /\ \A x \in 1 .. Len(row_blocks) :
              /\ runs[x] = IF task[x].st = "pending" THEN 0 ELSE 1
              /\ pc = "returned" => runs[x] = 1
        /\ a.rows = 0 => Len(row_blocks) = 0
        /\ (0 < a.rows /\ a.rows < MinBlock) =>
              /\ Len(row_blocks) = 1
              /\ \A idx \in FlatC :
                    \A p \in 1 .. Len(CellLog(idx)) : CellLog(idx)[p][1] = 1
              /\ pc = "returned" =>
                    \A idx \in FlatC :
                        /\ Len(CellLog(idx)) = a.cols
                        /\ Load(result.data, b.cols, idx) =
                             NaiveSum(a, b, idx \div b.cols, idx % b.cols, a.cols)

\* the single task of a matrix of 15 rows computed a non-trivial result
C7_Witness ==
    /\ ParallelReturned
    /\ a.rows = MinBlock - 1
    /\ runs = <<1>>
    /\ a.cols > MaxBlock /\ b.cols > 0

\* ----------------------------------------------------------------------
\* C8: gemm_parallel is a fork-join.  Between the fork and the return
\*  - no task ever waits: a started task can always take its next step (a
\*    kernel call or its completion) whatever the other tasks do, a row-block
\*    not yet taken can be taken as soon as a thread is free, and the caller
\*    can return as soon as every task has completed;
\*  - every step of the pool strictly decreases the work left (the tiles not
\*    yet processed and the tasks not yet started or completed), which is
\*    never negative: under fair scheduling every task therefore runs to
\*    completion and gemm_parallel returns;
\*  - the return happens only when every task has completed, and the matrix
\*    returned is C with, in every cell, the sum of all its k products: no
\*    partially accumulated C is returned.
RECURSIVE TilesLeft(_)
TilesLeft(t) == IF HasTile(t) THEN 1 + TilesLeft(NextTile(t)) ELSE 0

WorkLeft ==
    LET left(x) ==
            IF task[x].st = "done" THEN 0
            ELSE IF task[x].st = "running" THEN 1 + TilesLeft(task[x])
            ELSE 2 + TilesLeft([st |-> "running", cj |-> 0, kk |-> 0])
        sum[x \in 0 .. Len(task)] == IF x = 0 THEN 0 ELSE sum[x - 1] + left(x)
    IN  sum[Len(task)] + (IF pc = "forked" THEN 1 ELSE 0)

NoTaskWaits ==
    /\ \A x \in 1 .. Len(task) :
          /\ task[x].st = "running" => CanStep(x) \/ CanFinish(x)
          /\ (task[x].st = "pending" /\ Cardinality(Running) < nworkers) => CanStart(x)
    /\ nworkers >= 1
    /\ Cardinality(Running) <= nworkers
    /\ (\A x \in 1 .. Len(task) : task[x].st = "done") => CanJoin
    /\ (\E x \in 1 .. Len(task) : CanStart(x) \/ CanStep(x) \/ CanFinish(x)) \/ CanJoin

CompleteResult ==
    /\ \A x \in 1 .. Len(task) : task[x].st = "done" /\ ~HasTile(task[x])
    /\ result = c
    /\ \A idx \in FlatC :
          /\ Len(CellLog(idx)) = a.cols
          /\ Load(result.data, b.cols, idx) =
               NaiveSum(a, b, idx \div b.cols, idx % b.cols, a.cols)

C8_ForkJoin ==
    /\ []((entry = "parallel" /\ pc = "forked") => NoTaskWaits)
    /\ [][(entry = "parallel" /\ pc = "forked") =>
             /\ WorkLeft' < WorkLeft
             /\ WorkLeft' >= 0
             /\ pc' = "returned" => \A x \in 1 .. Len(task) : task[x].st = "done"]_vars
    /\ [](ParallelReturned => CompleteResult /\ WorkLeft = 0)

\* two tasks of several tiles each ran on two threads and were joined
C8_Witness ==
    /\ ParallelReturned
    /\ Len(task) >= 2
    /\ nworkers >= 2
    /\ a.cols > 0 /\ b.cols > MaxBlock

\* ----------------------------------------------------------------------
\* C9: a call of multiply_add_block_slice on rows [r0, r1), columns [c0, c1)
\* and depths [k0, k1) makes no out-of-bounds access (its writes stay within
\* the slice, its reads within A and B); it writes exactly the cells (i, j)
\* of the tile, i.e. the slice indices (i - r0)*n + j; it reads A exactly at
\* (i, t), once each, and B exactly at (t, j); A and B are not modified and
\* no cell of C outside the tile changes.
KernelCallOK ==
    LET n == b.cols
        inRows(r) == last'.r0 <= r /\ r < last'.r1
        inCols(col) == last'.c0 <= col /\ col < last'.c1
        inDepth(t) == last'.k0 <= t /\ t < last'.k1
        sl == row_blocks[last'.block]
    IN  /\ ~last'.oob
        /\ a' = a /\ b' = b
        /\ last'.r0 = sl.ri /\ last'.r1 = sl.r_end
        /\ \A idx \in FlatC :
              IF inRows(idx \div n) /\ inCols(idx % n)
              THEN /\ Len(Load(acc_log', n, idx)) =
                        Len(Load(acc_log, n, idx)) + (last'.k1 - last'.k0)
                   /\ idx - sl.start = (idx \div n - last'.r0) * n + (idx % n)
                   /\ idx - sl.start >= 0 /\ idx - sl.start < (last'.r1 - last'.r0) * n
              ELSE /\ Load(acc_log', n, idx) = Load(acc_log, n, idx)
                   /\ Load(c'.data, n, idx) = Load(c.data, n, idx)
        /\ \A idx \in 0 .. a.rows * a.cols - 1 :
              Load(a_reads', a.cols, idx) - Load(a_reads, a.cols, idx) =
                 IF inRows(idx \div a.cols) /\ inDepth(idx % a.cols) THEN 1 ELSE 0
        /\ \A idx \in 0 .. b.rows * b.cols - 1 :
              Load(b_reads', n, idx) - Load(b_reads, n, idx) =
                 IF inDepth(idx \div n) /\ inCols(idx % n)
                 THEN last'.r1 - last'.r0 ELSE 0

C9_KernelStaysInRanges == [][last' # last => KernelCallOK]_vars

\* a call on a tile that is first neither in rows, nor in columns, nor in depth
C9_Witness ==
    /\ last # NoCall
    /\ ~last.oob
    /\ last.r0 > 0 /\ (last.c0 > 0 \/ last.k0 > 0)

\* ----------------------------------------------------------------------
\* C10: at every moment the depth indices accumulated into a cell of C are
\* 0, 1, 2, .. in this order, each once; when gemm_parallel returns they are
\* exactly 0 .. k-1 for every cell: the summation order of gemm_naive.
C10_DepthOrder ==
    InParallel =>
        \A idx \in FlatC :
            /\ \A p \in 1 .. Len(CellLog(idx)) : CellLog(idx)[p][2] = p - 1
            /\ Len(CellLog(idx)) <= a.cols
            /\ pc = "returned" => Len(CellLog(idx)) = a.cols

\* returned with several column tiles and several depth tiles
C10_Witness ==
    /\ ParallelReturned
    /\ a.rows > 0
    /\ b.cols > MaxBlock /\ a.cols > MaxBlock

====
